---- MODULE Spec2Model ----
(***************************************************************************)
(* Subscriptions management screen (SubscriptionsScreen): optimistic       *)
(* add / delete / approve with rollback, and the pull (fetchData).         *)
(*                                                                         *)
(* Every handler is an async function.  Its code up to the first await     *)
(* runs in one step and reads the lists of the render it was created in;   *)
(* the code after the await runs in a later step and still reads the lists *)
(* captured by its closure (calls[..].subscribers / .requests), not the    *)
(* current ones.  A handler is taken to be invoked from the latest render. *)
(***************************************************************************)
EXTENDS Integers, Sequences, FiniteSets, TLC

\* ---------------------------------------------------------------- bounds
MaxOps == 2          \* handler invocations after the mount (refresh included)
MaxClock == 1        \* largest value Date.now() takes (clock starts at 0)
MaxPartners == 2     \* longest partners list of the store

\* ------------------------------------------------------------- JS helpers
\* ids are <<prefix, n>>: `temp-${n}`, `sub-${n}`, server ids, request ids
TempId(t) == <<"temp", t>>
SubId(t) == <<"sub", t>>
ServerId(n) == <<"srv", n>>
RequestId(n) == <<"req", n>>

\* String.prototype.trim on a string given as a sequence of characters
RECURSIVE TrimLeft(_)
TrimLeft(s) == IF s # <<>> /\ Head(s) = " " THEN TrimLeft(Tail(s)) ELSE s
RECURSIVE TrimRight(_)
TrimRight(s) ==
  IF s # <<>> /\ s[Len(s)] = " " THEN TrimRight(SubSeq(s, 1, Len(s) - 1)) ELSE s
TrimNone(s) == s
Trim(s) == TrimRight(TrimLeft(s))

\* list.some(x => x.id === id)
Has(list, id) == \E i \in 1..Len(list) : list[i].id = id
\* list.find(x => x.id === id), used only where Has(list, id)
Find(list, id) ==
  list[CHOOSE i \in 1..Len(list) :
         list[i].id = id /\ \A j \in 1..(i - 1) : list[j].id # id]
\* list.filter(x => x.id !== id)
RemoveId(list, id) == SelectSeq(list, LAMBDA x : x.id # id)
\* list.map(r => r.id === id ? { ...r, status: st } : r)
SetStatus(list, id, st) ==
  [i \in 1..Len(list) |->
     IF list[i].id = id THEN [list[i] EXCEPT !.status = st] ELSE list[i]]
Elems(list) == {list[i] : i \in 1..Len(list)}

\* ------------------------------------------------- the handlers' list code
\* handleAddSubscriber
AddOptimisticAtEnd(subs, optimisticSub) == Append(subs, optimisticSub)
AddOptimistic(subs, optimisticSub) == <<optimisticSub>> \o subs
AddConfirm(subs, resData, tempId) == <<resData>> \o RemoveId(subs, tempId)
AddRollback(subs, tempId) == RemoveId(subs, tempId)
\* handleDeleteSubscriber
DeleteOptimisticDeferred(subs, subId) == subs
DeleteOptimistic(subs, subId) == RemoveId(subs, subId)
DeleteRollback(subs, subToDelete) == Append(subs, subToDelete)
\* handleApproveRequest
ApproveOptimistic(reqs, reqId) == SetStatus(reqs, reqId, "approved")
ApproveConfirm(subs, newSub) == <<newSub>> \o subs
ApproveRollback(reqs, reqId) == SetStatus(reqs, reqId, "pending")
\* handleDeleteRequest
DeleteRequestOptimistic(reqs, reqId) == RemoveId(reqs, reqId)
DeleteRequestRollback(reqs, reqToDelete) == Append(reqs, reqToDelete)

\* err.response?.data?.detail || fallback ; NoDetail is undefined, "" is falsy
NoDetail == "undefined"
Details == {NoDetail, "", "detail"}
ErrorMessageNoFallback(detail, fallback) == detail
ErrorMessage(detail, fallback) ==
  IF detail = NoDetail \/ detail = "" THEN fallback ELSE detail
NoError == "null"

\* ------------------------------------------------------------ input sets
NewEmails == {<<>>, <<" ">>, <<" ", "a">>}
SubscriberIds == {ServerId(1), ServerId(2), TempId(0), SubId(0)}
RequestIds == {RequestId(1), RequestId(2)}
Subscriber(id, email, op) == [id |-> id, email |-> email, op |-> op]
Request(id, email) == [id |-> id, status |-> "pending", customer_email |-> email]
InitialRemoteSubscribers == <<Subscriber(ServerId(1), <<"x">>, 0)>>
InitialRemoteRequests ==
  <<Request(RequestId(1), <<"p">>), Request(RequestId(2), <<"q">>)>>

\* ------------------------------------------------------------ TabLayout
\* a string is a sequence of characters; a value that may be undefined
\* (user?.email, p.email) is <<>> when undefined and <<string>> otherwise
UpperCase ==
  <<"A", "B", "C", "D", "E", "F", "G", "H", "I", "J", "K", "L", "M",
    "N", "O", "P", "Q", "R", "S", "T", "U", "V", "W", "X", "Y", "Z">>
LowerCase ==
  <<"a", "b", "c", "d", "e", "f", "g", "h", "i", "j", "k", "l", "m",
    "n", "o", "p", "q", "r", "s", "t", "u", "v", "w", "x", "y", "z">>
\* String.prototype.toLowerCase
ToLowerCase(str) ==
  [i \in 1..Len(str) |->
     IF \E k \in 1..Len(UpperCase) : UpperCase[k] = str[i]
       THEN LowerCase[CHOOSE k \in 1..Len(UpperCase) : UpperCase[k] = str[i]]
       ELSE str[i]]
\* x?.toLowerCase(): undefined stays undefined
OptToLowerCase(opt) == [i \in 1..Len(opt) |-> ToLowerCase(opt[i])]

OWNER_EMAIL ==
  <<"p", "c", ".", "2", "0", "2", "5", ".", "a", "i", "@",
    "g", "m", "a", "i", "l", ".", "c", "o", "m">>

\* state.user: null (nobody logged in) or a user object, with or without email
NoUser == [present |-> FALSE, email |-> <<>>]
User(optEmail) == [present |-> TRUE, email |-> optEmail]
Partner(optEmail) == [email |-> optEmail]
\* user?.email
UserEmail(u) == IF u.present THEN u.email ELSE <<>>

\* isOwner, isPartner, canAccessOwner of TabLayout; === on two undefined
\* values is true
IsOwner(u) == OptToLowerCase(UserEmail(u)) = <<ToLowerCase(OWNER_EMAIL)>>
IsPartner(u, ps) ==
  \E i \in 1..Len(ps) :
    OptToLowerCase(ps[i].email) = OptToLowerCase(UserEmail(u))
CanAccessOwner(u, ps) == IsOwner(u) \/ IsPartner(u, ps)

OwnerEmailUpper == [OWNER_EMAIL EXCEPT ![1] = "P"]
Emails == {OWNER_EMAIL, OwnerEmailUpper, <<"b">>, <<"B">>, <<"z">>}
Users == {NoUser, User(<<>>)} \cup {User(<<e>>) : e \in Emails}
Partners == {Partner(<<>>)} \cup {Partner(<<e>>) : e \in {<<"b">>, <<"B">>, <<"y">>}}
RECURSIVE PartnerLists(_)
PartnerLists(n) ==
  IF n = 0 THEN {<<>>}
  ELSE PartnerLists(n - 1) \cup
       {Append(ps, p) : ps \in {l \in PartnerLists(n - 1) : Len(l) = n - 1},
                        p \in Partners}

VARIABLES
  subscribers,    \* useAppStore state.subscribers
  requests,       \* useState requests
  newEmail, showAddModal, loading, error, showConfetti, refreshing,
  calls,          \* handler invocations suspended at their await
  fetches,        \* fetchData invocations suspended at Promise.all
  now,            \* the value Date.now() returned when last read
  remoteSubs, remoteReqs, nextServerId,   \* the remote service
  opCount, fetchCount,
  history,        \* history: op -> its kind and "inflight" | "confirmed" | "failed"
  touched,        \* history: ops whose confirmed record was deleted/refreshed
  quiet,          \* history: lists when no call was outstanding, and since
  lastPull,       \* history: the last fetchData applied, if no call was in flight
  user, partners, \* useAppStore state.user, state.partners
  ownerTab        \* TabLayout: the owner-access tab is rendered

vars == <<subscribers, requests, newEmail, showAddModal, loading, error,
          showConfetti, refreshing, calls, fetches, now, remoteSubs,
          remoteReqs, nextServerId, opCount, fetchCount, history, touched,
          quiet, lastPull, user, partners, ownerTab>>

ui == <<newEmail, showAddModal, loading, error, showConfetti, refreshing>>
remote == <<remoteSubs, remoteReqs, nextServerId>>
tab == <<user, partners, ownerTab>>
screen == <<subscribers, requests, ui, calls, fetches, now, remote, opCount,
            fetchCount, history, touched, quiet, lastPull>>

Entry(kind) == [kind |-> kind, status |-> "inflight"]
CallFirstOp(op, kind, id, target) ==
  [op |-> 1, kind |-> kind, id |-> id, target |-> target,
   subscribers |-> subscribers, requests |-> requests]
Call(op, kind, id, target) ==
  [op |-> op, kind |-> kind, id |-> id, target |-> target,
   subscribers |-> subscribers, requests |-> requests]

\* history bookkeeping shared by the actions
Quiet(subs, reqs, cs, pulled) ==
  IF cs = {}
    THEN [subs |-> subs, reqs |-> reqs, first |-> opCount + 1, pulled |-> FALSE]
    ELSE [quiet EXCEPT !.pulled = @ \/ pulled]

\* what is remembered of a fetchData when it is applied: the number of
\* handler invocations so far, provided no call was in flight
LastPull(cs) ==
  IF cs = {} THEN [clean |-> TRUE, ops |-> opCount]
  ELSE [clean |-> FALSE, ops |-> 0]

Init ==
  /\ subscribers = InitialRemoteSubscribers
  /\ requests = <<>>
  /\ newEmail = <<>>
  /\ showAddModal = FALSE
  /\ loading = FALSE
  /\ error = NoError
  /\ showConfetti = FALSE
  /\ refreshing = FALSE
  /\ calls = {}
  /\ fetches = {[f |-> 1, refresh |-> FALSE]}
  /\ now = 0
  /\ remoteSubs = InitialRemoteSubscribers
  /\ remoteReqs = InitialRemoteRequests
  /\ nextServerId = 2
  /\ opCount = 0
  /\ fetchCount = 1
  /\ history = <<>>
  /\ touched = {}
  /\ quiet = [subs |-> subscribers, reqs |-> requests, first |-> 1,
              pulled |-> FALSE]
  /\ lastPull = [clean |-> FALSE, ops |-> 0]
  /\ user = NoUser
  /\ partners = <<>>
  /\ ownerTab = CanAccessOwner(user, partners)

\* ------------------------------------------------------------ UI inputs
\* the add button of the header: setShowAddModal(true)
OpenAddModal ==
  /\ ~showAddModal
  /\ showAddModal' = TRUE
  /\ UNCHANGED <<tab, lastPull, subscribers, requests, newEmail, loading, error, showConfetti,
                 refreshing, calls, fetches, now, remote, opCount, fetchCount,
                 history, touched, quiet>>

\* the cancel button of the modal: setShowAddModal(false)
CancelAddModal ==
  /\ showAddModal
  /\ showAddModal' = FALSE
  /\ UNCHANGED <<tab, lastPull, subscribers, requests, newEmail, loading, error, showConfetti,
                 refreshing, calls, fetches, now, remote, opCount, fetchCount,
                 history, touched, quiet>>

\* onChangeText={setNewEmail} of the modal's TextInput
ChangeEmail(e) ==
  /\ showAddModal
  /\ e # newEmail
  /\ newEmail' = e
  /\ UNCHANGED <<tab, lastPull, subscribers, requests, showAddModal, loading, error,
                 showConfetti, refreshing, calls, fetches, now, remote, opCount,
                 fetchCount, history, touched, quiet>>

\* ErrorCapsule onDismiss: setError(null)
DismissError ==
  /\ error # NoError
  /\ error' = NoError
  /\ UNCHANGED <<tab, lastPull, subscribers, requests, newEmail, showAddModal, loading,
                 showConfetti, refreshing, calls, fetches, now, remote, opCount,
                 fetchCount, history, touched, quiet>>

\* ConfettiEffect onComplete: setShowConfetti(false)
ConfettiComplete ==
  /\ showConfetti
  /\ showConfetti' = FALSE
  /\ UNCHANGED <<tab, lastPull, subscribers, requests, newEmail, showAddModal, loading, error,
                 refreshing, calls, fetches, now, remote, opCount, fetchCount,
                 history, touched, quiet>>

\* the values Date.now() can return: the clock never runs backwards, and
\* two reads can fall in the same millisecond
Clock == {t \in now..(now + 1) : t <= MaxClock}

\* room for one more handler invocation (the fetchData on mount is free)
Budget == opCount + (fetchCount - 1) < MaxOps

\* a handler that returns at its guard: nothing is set, nothing is called
GuardReturn ==
  UNCHANGED <<tab, lastPull, subscribers, requests, ui, calls, fetches, now, remote,
                 opCount, fetchCount, history, touched, quiet>>

\* ------------------------------------------------- handleAddSubscriber
AddApply(t) ==
  LET op == opCount + 1
      tempId == TempId(t)
      optimisticSub == Subscriber(tempId, Trim(newEmail), op)
      c == Call(op, "add", tempId, optimisticSub)
  IN /\ Trim(newEmail) # <<>>
     /\ Budget
     /\ now' = t
     /\ subscribers' = AddOptimistic(subscribers, optimisticSub)
     /\ showAddModal' = FALSE
     /\ newEmail' = <<>>
     /\ showConfetti' = TRUE
     /\ loading' = TRUE
     /\ calls' = calls \cup {c}
     /\ opCount' = op
     /\ history' = Append(history, Entry(c.kind))
     /\ quiet' = Quiet(subscribers', requests, calls', FALSE)
     /\ UNCHANGED <<tab, lastPull, requests, error, refreshing, fetches, remote, fetchCount,
                    touched>>

HandleAddSubscriber(t) ==
  /\ showAddModal
  /\ \/ Trim(newEmail) = <<>> /\ GuardReturn
     \/ AddApply(t)

\* subscriberApi.create resolved
AddSuccess(c) ==
  LET resData == Subscriber(ServerId(nextServerId), c.target.email, c.op)
  IN /\ c \in calls /\ c.kind = "add"
     /\ subscribers' = AddConfirm(c.subscribers, resData, c.id)
     /\ loading' = FALSE
     /\ remoteSubs' = Append(remoteSubs, resData)
     /\ nextServerId' = nextServerId + 1
     /\ calls' = calls \ {c}
     /\ history' = [history EXCEPT ![c.op].status = "confirmed"]
     /\ quiet' = Quiet(subscribers', requests, calls', FALSE)
     /\ UNCHANGED <<tab, lastPull, requests, newEmail, showAddModal, error, showConfetti,
                    refreshing, fetches, now, remoteReqs, opCount, fetchCount,
                    touched>>

\* subscriberApi.create rejected
AddFailure(c, detail) ==
  /\ c \in calls /\ c.kind = "add"
  /\ subscribers' = AddRollback(c.subscribers, c.id)
  /\ error' = ErrorMessage(detail, "Failed to add subscriber")
  /\ loading' = FALSE
  /\ calls' = calls \ {c}
  /\ history' = [history EXCEPT ![c.op].status = "failed"]
  /\ quiet' = Quiet(subscribers', requests, calls', FALSE)
  /\ UNCHANGED <<tab, lastPull, requests, newEmail, showAddModal, showConfetti, refreshing,
                 fetches, now, remote, opCount, fetchCount, touched>>

\* ----------------------------------------------- handleDeleteSubscriber
DeleteApply(subId) ==
  LET op == opCount + 1
      subToDelete == Find(subscribers, subId)
      c == Call(op, "delete", subId, subToDelete)
  IN /\ Has(subscribers, subId)
     /\ Budget
     /\ subscribers' = DeleteOptimistic(subscribers, subId)
     /\ calls' = calls \cup {c}
     /\ opCount' = op
     /\ history' = Append(history, Entry(c.kind))
     /\ touched' = touched \cup
          {x.op : x \in {r \in Elems(subscribers) : r.id = subId /\ r.op > 0}}
     /\ quiet' = Quiet(subscribers', requests, calls', FALSE)
     /\ UNCHANGED <<tab, lastPull, requests, ui, fetches, now, remote, fetchCount>>

HandleDeleteSubscriber(subId) ==
  \/ ~Has(subscribers, subId) /\ GuardReturn
  \/ DeleteApply(subId)

DeleteSuccess(c) ==
  /\ c \in calls /\ c.kind = "delete"
  /\ remoteSubs' = RemoveId(remoteSubs, c.id)
  /\ calls' = calls \ {c}
  /\ history' = [history EXCEPT ![c.op].status = "confirmed"]
  /\ quiet' = Quiet(subscribers, requests, calls', FALSE)
  /\ UNCHANGED <<tab, lastPull, subscribers, requests, ui, fetches, now, remoteReqs,
                 nextServerId, opCount, fetchCount, touched>>

DeleteFailure(c, detail) ==
  /\ c \in calls /\ c.kind = "delete"
  /\ subscribers' = DeleteRollback(c.subscribers, c.target)
  /\ error' = ErrorMessage(detail, "Failed to delete subscriber")
  /\ calls' = calls \ {c}
  /\ history' = [history EXCEPT ![c.op].status = "failed"]
  /\ quiet' = Quiet(subscribers', requests, calls', FALSE)
  /\ UNCHANGED <<tab, lastPull, requests, newEmail, showAddModal, loading, showConfetti,
                 refreshing, fetches, now, remote, opCount, fetchCount, touched>>

\* ------------------------------------------------- handleApproveRequest
\* the approve button is rendered only for a request whose status is pending
ApproveApply(reqId) ==
  LET op == opCount + 1
      request == Find(requests, reqId)
      c == Call(op, "approve", reqId, request)
  IN /\ Has(requests, reqId)
     /\ request.status = "pending"
     /\ Budget
     /\ requests' = ApproveOptimistic(requests, reqId)
     /\ showConfetti' = TRUE
     /\ calls' = calls \cup {c}
     /\ opCount' = op
     /\ history' = Append(history, Entry(c.kind))
     /\ quiet' = Quiet(subscribers, requests', calls', FALSE)
     /\ UNCHANGED <<tab, lastPull, subscribers, newEmail, showAddModal, loading, error,
                    refreshing, fetches, now, remote, fetchCount, touched>>

HandleApproveRequest(reqId) ==
  \/ ~Has(requests, reqId) /\ GuardReturn
  \/ ApproveApply(reqId)

ApproveSuccess(c, t) ==
  LET newSub == Subscriber(SubId(t), c.target.customer_email, c.op)
  IN /\ c \in calls /\ c.kind = "approve"
     /\ now' = t
     /\ subscribers' = ApproveConfirm(c.subscribers, newSub)
     /\ remoteReqs' = SetStatus(remoteReqs, c.id, "approved")
     /\ calls' = calls \ {c}
     /\ history' = [history EXCEPT ![c.op].status = "confirmed"]
     /\ quiet' = Quiet(subscribers', requests, calls', FALSE)
     /\ UNCHANGED <<tab, lastPull, requests, ui, fetches, remoteSubs, nextServerId, opCount,
                    fetchCount, touched>>

ApproveFailure(c, detail) ==
  /\ c \in calls /\ c.kind = "approve"
  /\ requests' = ApproveRollback(c.requests, c.id)
  /\ error' = ErrorMessage(detail, "Failed to approve request")
  /\ calls' = calls \ {c}
  /\ history' = [history EXCEPT ![c.op].status = "failed"]
  /\ quiet' = Quiet(subscribers, requests', calls', FALSE)
  /\ UNCHANGED <<tab, lastPull, subscribers, newEmail, showAddModal, loading, showConfetti,
                 refreshing, fetches, now, remote, opCount, fetchCount, touched>>

\* -------------------------------------------------- handleDeleteRequest
DeleteRequestApply(reqId) ==
  LET op == opCount + 1
      reqToDelete == Find(requests, reqId)
      c == Call(op, "delete-request", reqId, reqToDelete)
  IN /\ Has(requests, reqId)
     /\ Budget
     /\ requests' = DeleteRequestOptimistic(requests, reqId)
     /\ calls' = calls \cup {c}
     /\ opCount' = op
     /\ history' = Append(history, Entry(c.kind))
     /\ quiet' = Quiet(subscribers, requests', calls', FALSE)
     /\ UNCHANGED <<tab, lastPull, subscribers, ui, fetches, now, remote, fetchCount, touched>>

HandleDeleteRequest(reqId) ==
  \/ ~Has(requests, reqId) /\ GuardReturn
  \/ DeleteRequestApply(reqId)

DeleteRequestSuccess(c) ==
  /\ c \in calls /\ c.kind = "delete-request"
  /\ remoteReqs' = RemoveId(remoteReqs, c.id)
  /\ calls' = calls \ {c}
  /\ history' = [history EXCEPT ![c.op].status = "confirmed"]
  /\ quiet' = Quiet(subscribers, requests, calls', FALSE)
  /\ UNCHANGED <<tab, lastPull, subscribers, requests, ui, fetches, now, remoteSubs,
                 nextServerId, opCount, fetchCount, touched>>

DeleteRequestFailure(c, detail) ==
  /\ c \in calls /\ c.kind = "delete-request"
  /\ requests' = DeleteRequestRollback(c.requests, c.target)
  /\ error' = ErrorMessage(detail, "Failed to delete request")
  /\ calls' = calls \ {c}
  /\ history' = [history EXCEPT ![c.op].status = "failed"]
  /\ quiet' = Quiet(subscribers, requests', calls', FALSE)
  /\ UNCHANGED <<tab, lastPull, subscribers, newEmail, showAddModal, loading, showConfetti,
                 refreshing, fetches, now, remote, opCount, fetchCount, touched>>

\* ------------------------------------------------- fetchData, onRefresh
\* RefreshControl onRefresh: setRefreshing(true), then fetchData()
OnRefresh ==
  /\ Budget
  /\ refreshing' = TRUE
  /\ fetchCount' = fetchCount + 1
  /\ fetches' = fetches \cup {[f |-> fetchCount', refresh |-> TRUE]}
  /\ UNCHANGED <<tab, lastPull, subscribers, requests, newEmail, showAddModal, loading, error,
                 showConfetti, calls, now, remote, opCount, history, touched,
                 quiet>>

\* what one getAll() of Promise.all yields: the remote list, or, through
\* .catch(() => ({ data: [] })), the empty list when the call fails
GetAllResult(ok, remoteList) == IF ok THEN remoteList ELSE <<>>

\* both getAll() calls of a fetchData have settled, each with the remote list
\* or through its .catch, so Promise.all resolves: both lists are set, and an
\* onRefresh that awaited this fetchData does setRefreshing(false)
FetchDataSettle(f, okSubs, okReqs) ==
  /\ f \in fetches
  /\ fetches' = fetches \ {f}
  /\ subscribers' = GetAllResult(okSubs, remoteSubs)
  /\ requests' = GetAllResult(okReqs, remoteReqs)
  /\ refreshing' = (IF f.refresh THEN FALSE ELSE refreshing)
  /\ touched' = 1..opCount
  /\ quiet' = Quiet(subscribers', requests', calls, TRUE)
  /\ lastPull' = LastPull(calls)
  /\ UNCHANGED <<tab, newEmail, showAddModal, loading, error, showConfetti, calls,
                 now, remote, opCount, fetchCount, history>>

\* ------------------------------------------------------------ TabLayout
\* the store's user changes (login, logout): TabLayout renders again
SetUser(u) ==
  /\ u # user
  /\ user' = u
  /\ ownerTab' = CanAccessOwner(u, partners)
  /\ UNCHANGED <<partners, screen>>

\* the store's partners list changes: TabLayout renders again
SetPartners(ps) ==
  /\ ps # partners
  /\ partners' = ps
  /\ ownerTab' = CanAccessOwner(user, ps)
  /\ UNCHANGED <<user, screen>>

\* ------------------------------------------------------------------ Next
\* the steps of the screen that change something: a handler that returns at
\* its guard changes nothing (a stuttering step), and the two callbacks left
\* out only hide the confetti and the modal again
NextCore ==
  \/ OpenAddModal
  \/ \E e \in NewEmails : ChangeEmail(e)
  \/ DismissError
  \/ \E t \in Clock : showAddModal /\ AddApply(t)
  \/ \E c \in calls : AddSuccess(c)
  \/ \E c \in calls, d \in Details : AddFailure(c, d)
  \/ \E id \in SubscriberIds : DeleteApply(id)
  \/ \E c \in calls : DeleteSuccess(c)
  \/ \E c \in calls, d \in Details : DeleteFailure(c, d)
  \/ \E id \in RequestIds : ApproveApply(id)
  \/ \E c \in calls, t \in Clock : ApproveSuccess(c, t)
  \/ \E c \in calls, d \in Details : ApproveFailure(c, d)
  \/ \E id \in RequestIds : DeleteRequestApply(id)
  \/ \E c \in calls : DeleteRequestSuccess(c)
  \/ \E c \in calls, d \in Details : DeleteRequestFailure(c, d)
  \/ OnRefresh
  \/ \E f \in fetches, okSubs, okReqs \in BOOLEAN :
       FetchDataSettle(f, okSubs, okReqs)

\* every handler as a whole, its return at the guard included
Next ==
  \/ NextCore
  \/ CancelAddModal
  \/ ConfettiComplete
  \/ \E t \in Clock : HandleAddSubscriber(t)
  \/ \E id \in SubscriberIds : HandleDeleteSubscriber(id)
  \/ \E id \in RequestIds : HandleApproveRequest(id)
  \/ \E id \in RequestIds : HandleDeleteRequest(id)

\* the whole screen
Spec == Init /\ [][Next]_vars
\* the screen while the confetti is never hidden and the modal never cancelled
\* (returns at a guard are stuttering steps, which the formula allows anyway)
SpecCore == Init /\ [][NextCore]_vars

\* the tab bar alone: the store's user and partners change
NextTab ==
  \/ \E u \in Users : SetUser(u)
  \/ \E ps \in PartnerLists(MaxPartners) : SetPartners(ps)
SpecTab == Init /\ [][NextTab]_vars

\* ---------------------------------------------------------------- claims
\* the step resolves call c (its await returned or threw)
Resolves(c) == c \in calls /\ c \notin calls'
Fails(c) == Resolves(c) /\ history'[c.op].status = "failed"
Succeeds(c) == Resolves(c) /\ history'[c.op].status = "confirmed"
\* the step is the synchronous part of a handler that issues call c
Issues(c) == c \in calls' /\ c \notin calls
\* the step is the continuation of a fetchData after its Promise.all
Pulls == \E f \in fetches : f \notin fetches'
\* c was applied when no call was outstanding, and nothing else was applied
\* or pulled since
Alone(c) ==
  calls = {c} /\ quiet.first = c.op /\ opCount = c.op /\ ~quiet.pulled

\* C1: when one optimistic mutation is applied with no call outstanding,
\* nothing else is applied or pulled, and its remote call fails, both lists
\* are afterwards equal to what they were immediately before the mutation.
RollbackRestores ==
  [][\A c \in calls :
       (Alone(c) /\ Fails(c))
         => (subscribers' = quiet.subs /\ requests' = quiet.reqs)]_vars

\* the calls applied since no call was outstanding are all still unresolved,
\* and no pull was applied meanwhile
NoneResolved ==
  /\ ~quiet.pulled
  /\ \A k \in quiet.first..opCount : history[k].status = "inflight"
CallOf(k) == CHOOSE c \in calls : c.op = k
\* what one mutation means for the lists: a create puts the record first, a
\* delete removes the record of that id, an approve marks the request
Mutated(lists, c) ==
  LET Others(list) == SelectSeq(list, LAMBDA x : x.id # c.id)
      Marked(list) ==
        [i \in 1..Len(list) |->
           IF list[i].id = c.id THEN [list[i] EXCEPT !.status = "approved"]
           ELSE list[i]]
  IN CASE c.kind = "add" -> [lists EXCEPT !.subs = <<c.target>> \o @]
       [] c.kind = "delete" -> [lists EXCEPT !.subs = Others(@)]
       [] c.kind = "approve" -> [lists EXCEPT !.reqs = Marked(@)]
       [] c.kind = "delete-request" -> [lists EXCEPT !.reqs = Others(@)]
RECURSIVE Replay(_, _)
Replay(lists, k) ==
  IF k > opCount THEN lists ELSE Replay(Mutated(lists, CallOf(k)), k + 1)

\* C2: while none of the mutations applied since the lists were at rest has
\* resolved, the two lists equal the replay of those mutations, in submission
\* order, on the lists at rest.
OptimisticConsistency ==
  NoneResolved =>
    [subs |-> subscribers, reqs |-> requests]
      = Replay([subs |-> quiet.subs, reqs |-> quiet.reqs], quiet.first)

\* two unresolved mutations, an add and then one that changed the requests
OptimisticConsistencyWitness ==
  /\ NoneResolved
  /\ \E c, d \in calls : c.op < d.op /\ c.kind = "add" /\ Has(subscribers, c.id)
  /\ requests # quiet.reqs

\* C3: the optimistic (temp-id) record of a create whose remote call failed
\* is in the subscribers list neither after its rollback nor in any later
\* state.
RollbackRemovesCreate ==
  \A r \in Elems(subscribers) :
    r.id[1] = "temp" => history[r.op].status # "failed"

\* a record the remote confirmed: returned by create, or added by an approve
ConfirmedRecord(r) == r.op > 0 /\ r.id[1] \in {"srv", "sub"}

\* C4: a record confirmed by the remote that is in the subscribers list, and
\* that no delete or refresh has touched, is still in the list after the
\* confirmation or rollback of any call.
NoSilentDataLoss ==
  [][\A c \in calls : Resolves(c) =>
       \A r \in Elems(subscribers) :
         (ConfirmedRecord(r) /\ r.op \notin touched)
           => r \in Elems(subscribers')]_vars

\* C5: once every call has settled, each confirmed create has no temp-id
\* copy left in the subscribers list, and (unless a delete or a refresh
\* touched it since) its record with the server id is in the list.
CreateConfirmed ==
  calls = {} =>
    \A k \in 1..opCount :
      (history[k].kind = "add" /\ history[k].status = "confirmed") =>
        /\ ~\E r \in Elems(subscribers) : r.op = k /\ r.id[1] = "temp"
        /\ k \notin touched =>
             \E r \in Elems(subscribers) : r.op = k /\ r.id[1] = "srv"

\* the local value of the record call c is about, in the list c changes
LocalValue(c, subs, reqs) ==
  SelectSeq(IF c.kind \in {"add", "delete"} THEN subs ELSE reqs,
            LAMBDA x : x.id = c.id)

\* C6: when a pull is applied while a mutation of a record is still in
\* flight, the local value of that record is left as it is: the pulled value
\* is not applied before the mutation is confirmed or has failed.
ConflictDeferral ==
  [][Pulls => \A c \in calls :
       LocalValue(c, subscribers', requests')
         = LocalValue(c, subscribers, requests)]_vars

\* C7: when two or more mutations applied since the lists were at rest have
\* all failed, whatever the order of the failures, the lists are back at what
\* they were at rest (checked on adds and approves, whose own rollback is
\* exact, so that only the order of unwinding is at stake).
StepwiseRollback ==
  [][(/\ calls # {} /\ calls' = {}
      /\ ~quiet.pulled
      /\ opCount > quiet.first
      /\ \A k \in quiet.first..opCount :
           /\ history'[k].status = "failed"
           /\ history'[k].kind \in {"add", "approve"})
       => (subscribers' = quiet.subs /\ requests' = quiet.reqs)]_vars

\* C8: no fetchData (which pulls both lists) is in flight while a remote
\* mutation call for one of the lists is in flight.
PushPullExclusive == fetches = {} \/ calls = {}

\* the optimistic change of call c shows in the lists
Observable(c, subs, reqs) ==
  CASE c.kind = "add" -> c.target \in Elems(subs)
    [] c.kind = "delete" -> ~Has(subs, c.id)
    [] c.kind = "approve" -> Find(reqs, c.id).status = "approved"
    [] c.kind = "delete-request" -> ~Has(reqs, c.id)

\* C9: the step that issues a remote call has already changed the local
\* list, so the change shows in a state where the call is still in flight;
\* and a mutation can be applied whatever calls are in flight: a delete of a
\* listed subscriber, an approve of a pending request and an add of a
\* non-blank email are enabled as long as the budget of the model lasts.
OptimisticFirst ==
  /\ [][\A c \in calls' : Issues(c) => Observable(c, subscribers', requests')]_vars
  /\ [](Budget =>
         /\ \A id \in SubscriberIds :
              Has(subscribers, id) => ENABLED DeleteApply(id)
         /\ \A id \in RequestIds :
              (Has(requests, id) /\ Find(requests, id).status = "pending")
                => ENABLED ApproveApply(id)
         /\ (showAddModal /\ Trim(newEmail) # <<>>) => ENABLED AddApply(now))

\* a delete applied while an add and a pull are in flight: the record is gone
\* from the list and the delete call has not returned
OptimisticFirstWitness ==
  /\ fetches # {}
  /\ loading
  /\ \E c, d \in calls :
       /\ c.kind = "add" /\ d.kind = "delete" /\ c.op < d.op
       /\ d.target \in Elems(d.subscribers)
       /\ ~Has(subscribers, d.id)

\* C10: a failed remote mutation leaves a non-empty message in error, a
\* successful one leaves error as it was, and a message is only cleared by
\* the dismissal of the error capsule (a step that changes nothing else).
FailureNotified ==
  [][/\ \A c \in calls : Fails(c) => error' \notin {NoError, NoDetail, ""}
     /\ \A c \in calls : Succeeds(c) => error' = error
     /\ (error # NoError /\ error' = NoError) =>
          UNCHANGED <<subscribers, requests, newEmail, showAddModal, loading,
                      showConfetti, refreshing, calls, fetches, history>>]_vars

\* a mutation has failed with no detail, another has succeeded since, and the
\* message of the failure is still there
FailureNotifiedWitness ==
  /\ error = "Failed to delete subscriber"
  /\ \E k, j \in 1..opCount :
       /\ k < j
       /\ history[k] = [kind |-> "delete", status |-> "failed"]
       /\ history[j].status = "confirmed"

\* C11: a fetchData applied after an earlier fetchData, with no call in flight
\* at either and no handler invoked in between (so the remote has not
\* changed), leaves both lists as the earlier one left them.
PullIdempotent ==
  [][(Pulls /\ lastPull.clean /\ lastPull.ops = opCount /\ calls = {})
       => (subscribers' = subscribers /\ requests' = requests)]_vars

\* local ids are those made from Date.now(): temp-... and sub-...
LocalId(id) == id[1] \in {"temp", "sub"}

\* C12: no two records created by different handler invocations carry the
\* same local id (stated on the records that are in the list together).
LocalIdsNeverReused ==
  \A i, j \in 1..Len(subscribers) :
    (LocalId(subscribers[i].id) /\ subscribers[i].op # subscribers[j].op)
      => subscribers[i].id # subscribers[j].id

\* the step is the rejection of call c by an error that carries no response
\* (a network error, a timeout): err.response is undefined
FailsTransiently(c) ==
  \/ AddFailure(c, NoDetail)
  \/ DeleteFailure(c, NoDetail)
  \/ ApproveFailure(c, NoDetail)
  \/ DeleteRequestFailure(c, NoDetail)

\* C13: when a remote call fails with a transient error, the mutation stays
\* outstanding (to be retried) and its optimistic effect stays in the lists;
\* there is no rollback.
TransientRetried ==
  [][\A c \in calls :
       FailsTransiently(c)
         => (c \in calls' /\ subscribers' = subscribers
                          /\ requests' = requests)]_vars

\* d is a delete applied to the record of c while c, not a delete, was
\* outstanding
Supersedes(d, c) ==
  /\ c.kind \in {"add", "approve"}
  /\ d.kind \in {"delete", "delete-request"}
  /\ d.id = c.id
  /\ d.op > c.op

\* C14: once a delete has been applied to the record of an outstanding
\* non-delete mutation, the confirmation or failure of that mutation changes
\* neither list.
DeleteSupersedes ==
  [][\A c, d \in calls :
       (Supersedes(d, c) /\ Resolves(c))
         => (subscribers' = subscribers /\ requests' = requests)]_vars

\* the status of the k-th mutation: "none" before its handler has run, then
\* what the handler's try / catch has made of it
MutationStatus(h, k) == IF k > Len(h) THEN "none" ELSE h[k].status
AllowedTransitions ==
  {<<"none", "inflight">>, <<"inflight", "confirmed">>, <<"inflight", "failed">>}

OwnerTabGated ==
  ownerTab =>
    /\ user.present
    /\ user.email # <<>>
    /\ \/ ToLowerCase(user.email[1]) = ToLowerCase(OWNER_EMAIL)
       \/ \E i \in 1..Len(partners) :
            /\ partners[i].email # <<>>
            /\ ToLowerCase(partners[i].email[1]) = ToLowerCase(user.email[1])

\* no two entries of a list have the same id
DistinctIds(list) ==
  \A i, j \in 1..Len(list) : i # j => list[i].id # list[j].id

\* C17: the remote returns records with distinct ids, and in every reachable
\* state the entries of the subscribers list have distinct ids and so have
\* the entries of the requests list.
UniqueIds ==
  (DistinctIds(remoteSubs) /\ DistinctIds(remoteReqs))
    => (DistinctIds(subscribers) /\ DistinctIds(requests))

\* the remote has confirmed a delete of the record with this id: the id was
\* given out by the remote and is in the remote list no more
DeleteConfirmed(id) ==
  \/ id[1] = "srv" /\ id[2] < nextServerId /\ ~Has(remoteSubs, id)
  \/ id[1] = "req" /\ ~Has(remoteReqs, id)
ListOf(id, subs, reqs) == IF id[1] = "req" THEN reqs ELSE subs

\* C18: a record whose delete the remote has confirmed, and which is not in
\* the local list, is not in the list either after the confirmation or the
\* rollback of any call (a step that is not a pull).
DeletedStayDeleted ==
  [][\A c \in calls : Resolves(c) =>
       \A id \in SubscriberIds \cup RequestIds :
         (DeleteConfirmed(id) /\ ~Has(ListOf(id, subscribers, requests), id))
           => ~Has(ListOf(id, subscribers', requests'), id)]_vars

\* the lists were loaded by a fetchData with no call in flight, every handler
\* invoked since was handleApproveRequest, and every call has settled
ApprovesSettled ==
  /\ lastPull.clean
  /\ calls = {}
  /\ \A k \in (lastPull.ops + 1)..opCount : history[k].kind = "approve"

\* C19: once the approve calls issued since the lists were loaded have all
\* settled, with no pull in between, a request has local status 'approved'
\* exactly if the remote has approved it, that is if its approve call
\* succeeded.
ApprovalAgrees ==
  ApprovesSettled =>
    \A r \in Elems(requests), q \in Elems(remoteReqs) :
      r.id = q.id => r.status = q.status

\* C20: when the getAll() of fetchData for subscribers fails, the subscribers
\* list is after fetchData what it was before; likewise requests when the
\* getAll() for requests fails.
FailedPullKeeps ==
  [][\A f \in fetches, ok \in BOOLEAN :
       /\ FetchDataSettle(f, FALSE, ok) => subscribers' = subscribers
       /\ FetchDataSettle(f, ok, FALSE) => requests' = requests]_vars

\* an empty or whitespace-only string
Blank(str) == \A i \in 1..Len(str) : str[i] = " "
\* no entry of the list has this id
Absent(list, id) == \A r \in Elems(list) : r.id # id

\* the step changes one of the lists, the error, the loading or the confetti
\* flag, or the set of remote calls in flight
ChangesSomething ==
  ~UNCHANGED <<subscribers, requests, error, loading, showConfetti, calls>>

\* C21: handleAddSubscriber with an empty or whitespace-only email, and the
\* delete and approve handlers with an id that is not in their list, leave
\* subscribers, requests, error, loading and the confetti flag as they are
\* and issue no remote call: there the handler has no step that changes any
\* of them.
GuardedNoOp ==
  /\ Blank(newEmail) =>
       \A t \in Clock : ~ENABLED (HandleAddSubscriber(t) /\ ChangesSomething)
  /\ \A id \in SubscriberIds :
       Absent(subscribers, id) =>
         ~ENABLED (HandleDeleteSubscriber(id) /\ ChangesSomething)
  /\ \A id \in RequestIds :
       Absent(requests, id) =>
         /\ ~ENABLED (HandleApproveRequest(id) /\ ChangesSomething)
         /\ ~ENABLED (HandleDeleteRequest(id) /\ ChangesSomething)

\* the modal is open on a whitespace-only email while a call is in flight,
\* srv-1 and req-1 are gone from their lists, and each of the four handlers
\* can be invoked there and return at its guard
GuardedNoOpWitness ==
  /\ showAddModal /\ newEmail = <<" ">> /\ calls # {}
  /\ Absent(subscribers, ServerId(1))
  /\ requests # <<>> /\ Absent(requests, RequestId(1))
  /\ ENABLED (HandleAddSubscriber(now) /\ UNCHANGED vars)
  /\ ENABLED (HandleDeleteSubscriber(ServerId(1)) /\ UNCHANGED vars)
  /\ ENABLED (HandleApproveRequest(RequestId(1)) /\ UNCHANGED vars)
  /\ ENABLED (HandleDeleteRequest(RequestId(1)) /\ UNCHANGED vars)
====
